---- MODULE Spec2Model ----
(***************************************************************************)
(* RedisPubSub (src/src/redis-pubsub.ts): the subscription registry and    *)
(* dispatch engine, together with the subscriber connection it drives.     *)
(*                                                                         *)
(* The registry is single-threaded: every method and every callback runs   *)
(* to completion, so each is one action.  The subscriber connection is a   *)
(* pair of FIFO queues: `outbound` holds the commands the registry has     *)
(* issued and the broker has not yet processed, `inbound` holds the        *)
(* replies and messages the broker has sent and the client has not yet     *)
(* handed to a callback.                                                   *)
(***************************************************************************)
EXTENDS Integers, Sequences, FiniteSets, TLC

\* ---------------------------------------------------------------- bounds
\* number of subscribe calls explored (ids 0 .. MaxSubs-1 are allocated)
MaxSubs == 3
\* message events that may wait in `inbound` when another message is published
MaxInFlight == 1

\* ---------------------------------------------------------------- values
\* Trigger strings the callers use.  "null" is an ordinary trigger string;
\* it is also the property key JavaScript gives to the value null.
Triggers == {"news", "null"}

\* the value null that line 116 gives triggerName when subId has no record
Null == "<null>"

\* wire payloads: one that JSON.parse accepts, one that it rejects
Payloads == {"{\"a\":1}", "{oops"}

\* ids a caller may pass to unsubscribe: every id subscribe can allocate
\* within the bound, and one integer beyond them
SubIds == 0 .. MaxSubs

VARIABLES
    currentSubscriptionId,  \* this.currentSubscriptionId
    subscriptionMap,        \* this.subscriptionMap : subId -> <<triggerName, listener>>
    subsRefsMap,            \* this.subsRefsMap     : triggerName -> sequence of subIds
    promise,                \* subId -> state of the promise subscribe returned
    outbound,               \* commands issued on redisSubscriber, not yet processed
    inbound,                \* replies and messages not yet handed to a callback
    literalSubs,            \* broker: channels this connection is subscribed to
    patternSubs,            \* broker: patterns this connection is subscribed to
    ended,                  \* the subscriber connection has been closed by QUIT
    lastOp                  \* the last call or callback: which, its id, whether it
                            \* threw, and the listener invocations it made

vars == <<currentSubscriptionId, subscriptionMap, subsRefsMap, promise, outbound,
          inbound, literalSubs, patternSubs, ended, lastOp>>

registry == <<currentSubscriptionId, subscriptionMap, subsRefsMap>>

\* ---------------------------------------------------------------- helpers
\* line 32: the default triggerTransform, trigger => trigger as string
triggerTransform(trigger, pattern) == trigger

\* a JavaScript object used as a map: obj[key] with key coerced to a string
PropertyKey(key) == IF key = Null THEN "null" ELSE key

Has(map, key) == PropertyKey(key) \in DOMAIN map

\* delete map[key]
Delete(map, key) == [k \in DOMAIN map \ {PropertyKey(key)} |-> map[k]]

\* map[key] = value
Put(map, key, value) ==
    [k \in DOMAIN map \cup {PropertyKey(key)} |->
        IF k = PropertyKey(key) THEN value ELSE map[k]]

\* refs.indexOf(subId), 1-based; 0 stands for -1
IndexOf(refs, subId) ==
    IF \E i \in 1 .. Len(refs) : refs[i] = subId
    THEN CHOOSE i \in 1 .. Len(refs) :
            refs[i] = subId /\ \A j \in 1 .. (i - 1) : refs[j] # subId
    ELSE 0

\* [...refs.slice(0, index), ...refs.slice(index + 1)]
RemoveAt(refs, i) == SubSeq(refs, 1, i - 1) \o SubSeq(refs, i + 1, Len(refs))

Range(s) == {s[i] : i \in 1 .. Len(s)}

Op(op, subId, threw, calls) ==
    [op |-> op, subId |-> subId, threw |-> threw, calls |-> calls]

\* ---------------------------------------------------------------- constructor
\* lines 72-74
Init ==
    /\ currentSubscriptionId = 0
    /\ subscriptionMap = <<>>
    /\ subsRefsMap = <<>>
    /\ promise = <<>>
    /\ outbound = <<>>
    /\ inbound = <<>>
    /\ literalSubs = {}
    /\ patternSubs = {}
    /\ ended = FALSE
    /\ lastOp = Op("init", -1, FALSE, <<>>)

\* ---------------------------------------------------------------- subscribe
\* a counter that is read but not advanced
NextSubscriptionIdStuck(current) == current

\* line 88: this.currentSubscriptionId++ leaves the counter one higher
NextSubscriptionId(current) == current + 1

\* an off-by-one test of the reference count
ReusesSubscriptionAboveOne(map, triggerName) ==
    Has(map, triggerName) /\ Len(map[PropertyKey(triggerName)]) > 1

\* a subscribe that counts on the physical subscription of an earlier call
\* without looking at the reference count
ReusesSubscriptionOptimistic(map, triggerName) == TRUE

\* line 92: refs && refs.length > 0
ReusesSubscription(map, triggerName) ==
    Has(map, triggerName) /\ Len(map[PropertyKey(triggerName)]) > 0

\* line 98: !!options['pattern'] ? psubscribe : subscribe
subscribeFn(pattern) == IF pattern THEN "psubscribe" ELSE "subscribe"

\* lines 81-113.  The listener is named after the call that passed it.
Subscribe(trigger, pattern) ==
    /\ currentSubscriptionId < MaxSubs
    /\ LET triggerName == triggerTransform(trigger, pattern)
           id == currentSubscriptionId
           listener == id
           reuse == ReusesSubscription(subsRefsMap, triggerName)
           refs == IF Has(subsRefsMap, triggerName)
                   THEN subsRefsMap[PropertyKey(triggerName)] ELSE <<>>
       IN  /\ currentSubscriptionId' = NextSubscriptionId(currentSubscriptionId)
           /\ subscriptionMap' =
                [k \in DOMAIN subscriptionMap \cup {id} |->
                    IF k = id THEN <<triggerName, listener>> ELSE subscriptionMap[k]]
           /\ IF reuse
              THEN /\ subsRefsMap' = Put(subsRefsMap, triggerName, Append(refs, id))
                   /\ promise' = [k \in DOMAIN promise \cup {id} |->
                                    IF k = id THEN "resolved" ELSE promise[k]]
                   /\ UNCHANGED outbound
              ELSE /\ outbound' = Append(outbound,
                        [op |-> subscribeFn(pattern), channel |-> triggerName, id |-> id])
                   /\ promise' = [k \in DOMAIN promise \cup {id} |->
                                    IF k = id THEN "pending" ELSE promise[k]]
                   /\ UNCHANGED subsRefsMap
           /\ lastOp' = Op("subscribe", id, FALSE, <<>>)
    /\ UNCHANGED <<inbound, literalSubs, patternSubs, ended>>

\* lines 100-110: the callback given to subscribe / psubscribe, run when the
\* reply to that command is read from the connection
SubscribeCallback ==
    /\ inbound # <<>>
    /\ Head(inbound).type = "reply"
    /\ LET reply == Head(inbound)
           id == reply.id
           triggerName == reply.triggerName
           refs == IF Has(subsRefsMap, triggerName)
                   THEN subsRefsMap[PropertyKey(triggerName)] ELSE <<>>
       IN  /\ inbound' = Tail(inbound)
           /\ IF reply.err
              THEN /\ promise' = [promise EXCEPT ![id] = "rejected"]
                   /\ UNCHANGED subsRefsMap
              ELSE /\ subsRefsMap' = Put(subsRefsMap, triggerName, Append(refs, id))
                   /\ promise' = [promise EXCEPT ![id] = "resolved"]
           /\ lastOp' = Op("callback", id, reply.err, <<>>)
    /\ UNCHANGED <<currentSubscriptionId, subscriptionMap, outbound, literalSubs,
                   patternSubs, ended>>

\* ---------------------------------------------------------------- unsubscribe
\* a teardown that forgets the pattern subscription
UnsubscribeLiteralOnly(triggerName) ==
    << [op |-> "unsubscribe", channel |-> triggerName, id |-> -1] >>

\* lines 123-124: both calls, literal first
UnsubscribeCommands(triggerName) ==
    << [op |-> "unsubscribe", channel |-> triggerName, id |-> -1],
       [op |-> "punsubscribe", channel |-> triggerName, id |-> -1] >>

\* a removal that leaves the ChannelRefSet as it was
WithoutSubIdKeeping(refs, subId) == refs

\* lines 128-132
WithoutSubId(refs, subId) ==
    IF IndexOf(refs, subId) = 0 THEN refs ELSE RemoveAt(refs, IndexOf(refs, subId))

\* lines 115-136
Unsubscribe(subId) ==
    LET triggerName == IF subId \in DOMAIN subscriptionMap
                       THEN subscriptionMap[subId][1] ELSE Null
        hadRefs == Has(subsRefsMap, triggerName)
        refs == IF hadRefs THEN subsRefsMap[PropertyKey(triggerName)] ELSE <<>>
    IN  /\ lastOp' = Op("unsubscribe", subId, ~hadRefs, <<>>)
        /\ IF ~hadRefs
           THEN UNCHANGED <<subscriptionMap, subsRefsMap, outbound>>
           ELSE /\ IF Len(refs) = 1
                   THEN /\ outbound' = outbound \o UnsubscribeCommands(triggerName)
                        /\ subsRefsMap' = Delete(subsRefsMap, triggerName)
                   ELSE /\ subsRefsMap' =
                            Put(subsRefsMap, triggerName, WithoutSubId(refs, subId))
                        /\ UNCHANGED outbound
                /\ subscriptionMap' =
                     [k \in DOMAIN subscriptionMap \ {subId} |-> subscriptionMap[k]]
        /\ UNCHANGED <<currentSubscriptionId, promise, inbound, literalSubs,
                       patternSubs, ended>>

\* ---------------------------------------------------------------- close
\* line 153: this.redisSubscriber.quit()
QuitCommand == [op |-> "quit", channel |-> Null, id |-> -1]

\* close() has been called: its QUIT is queued or has ended the connection
Closed == ended \/ \E i \in 1 .. Len(outbound) : outbound[i].op = "quit"

\* a close() that first tears the registry down
CloseTearingDown ==
    /\ ~Closed
    /\ subsRefsMap' = <<>>
    /\ subscriptionMap' = <<>>
    /\ outbound' = Append(outbound, QuitCommand)
    /\ lastOp' = Op("close", -1, FALSE, <<>>)
    /\ UNCHANGED <<currentSubscriptionId, promise, inbound, literalSubs,
                   patternSubs, ended>>

\* lines 150-155.  The publisher connection (line 152) carries no state of the
\* registry.  close() is called at most once.
Close ==
    /\ ~Closed
    /\ outbound' = Append(outbound, QuitCommand)
    /\ lastOp' = Op("close", -1, FALSE, <<>>)
    /\ UNCHANGED <<currentSubscriptionId, subscriptionMap, subsRefsMap, promise,
                   inbound, literalSubs, patternSubs, ended>>

\* ---------------------------------------------------------------- onMessage
\* line 165: JSON.parse(message, this.reviver); no deserializer is configured
JSONParse(message) ==
    IF message = "{\"a\":1}"
    THEN [ok |-> TRUE, value |-> "object{a:1}"]
    ELSE [ok |-> FALSE, value |-> "SyntaxError"]

\* lines 163-168
ParsedMessage(message) ==
    IF JSONParse(message).ok THEN JSONParse(message).value ELSE message

\* lines 170-173: the loop over the subscribers.  Destructuring a missing
\* record raises a TypeError; an exception raised by a listener is not caught.
\* Either ends the loop.  `thrower` is the position in `subscribers` of the
\* first listener that raises on this message, 0 when none does; `at` is the
\* position the loop has reached.
RECURSIVE FanOut(_, _, _, _, _)
FanOut(records, subscribers, value, thrower, at) ==
    IF at > Len(subscribers)
    THEN [calls |-> <<>>, threw |-> FALSE]
    ELSE IF subscribers[at] \notin DOMAIN records
    THEN [calls |-> <<>>, threw |-> TRUE]
    ELSE LET listener == records[subscribers[at]][2]
             call == [listener |-> listener, value |-> value]
             rest == FanOut(records, subscribers, value, thrower, at + 1)
         IN  IF at = thrower
             THEN [calls |-> <<call>>, threw |-> TRUE]
             ELSE [calls |-> <<call>> \o rest.calls, threw |-> rest.threw]

\* a dispatch that ignores the pattern of a 'pmessage'
DispatchKeyChannel(pattern, channel) == channel

\* line 158: pattern || channel
DispatchKey(pattern, channel) == IF pattern # Null THEN pattern ELSE channel

\* line 158: this.subsRefsMap[pattern || channel], <<>> standing for undefined
Subscribers(refsMap, pattern, channel) ==
    IF Has(refsMap, DispatchKey(pattern, channel))
    THEN refsMap[PropertyKey(DispatchKey(pattern, channel))]
    ELSE <<>>

\* lines 157-174, as a function of the registry's state
OnMessageResult(records, refsMap, pattern, channel, message, thrower) ==
    IF Len(Subscribers(refsMap, pattern, channel)) = 0
    THEN [calls |-> <<>>, threw |-> FALSE]
    ELSE FanOut(records, Subscribers(refsMap, pattern, channel),
                ParsedMessage(message), thrower, 1)

\* lines 68-70, 157-174: the 'message' / 'pmessage' handler
OnMessage ==
    /\ inbound # <<>>
    /\ Head(inbound).type = "message"
    /\ LET m == Head(inbound)
       IN  \E thrower \in 0 .. Len(Subscribers(subsRefsMap, m.pattern, m.channel)) :
             LET result == OnMessageResult(subscriptionMap, subsRefsMap, m.pattern,
                                           m.channel, m.message, thrower)
             IN  /\ inbound' = Tail(inbound)
                 /\ lastOp' = Op("onMessage", -1, result.threw, result.calls)
    /\ UNCHANGED <<currentSubscriptionId, subscriptionMap, subsRefsMap, promise,
                   outbound, literalSubs, patternSubs, ended>>

\* ---------------------------------------------------------------- the broker
\* The name a command argument has on the wire.  The client library decides
\* how the value null is written; both the empty string and "null" are
\* outcomes a build can produce.
WireNames(channel) == IF channel = Null THEN {"", "null"} ELSE {channel}

\* A pattern free of glob characters matches exactly its own name; the glob
\* pattern n* matches every name that starts with n.
Matches(pattern, channel) ==
    \/ pattern = channel
    \/ pattern = "n*" /\ channel \in {"news", "null", "n*"}

\* The broker executes the next command of the connection.  QUIT ends the
\* connection and with it every subscription it held; on an ended connection
\* a subscribe / psubscribe can only fail (BrokerReject) and the other
\* commands have no effect.
BrokerExecute ==
    /\ outbound # <<>>
    /\ ended => Head(outbound).op \notin {"subscribe", "psubscribe"}
    /\ LET cmd == Head(outbound)
           ok == [type |-> "reply", id |-> cmd.id, triggerName |-> cmd.channel,
                  err |-> FALSE, pattern |-> Null, channel |-> Null,
                  message |-> ""]
       IN  /\ outbound' = Tail(outbound)
           /\ \E name \in WireNames(cmd.channel) :
                CASE cmd.op = "subscribe" ->
                        /\ literalSubs' = literalSubs \cup {name}
                        /\ inbound' = Append(inbound, ok)
                        /\ UNCHANGED <<patternSubs, ended>>
                  [] cmd.op = "psubscribe" ->
                        /\ patternSubs' = patternSubs \cup {name}
                        /\ inbound' = Append(inbound, ok)
                        /\ UNCHANGED <<literalSubs, ended>>
                  [] cmd.op = "unsubscribe" ->
                        /\ literalSubs' = literalSubs \ {name}
                        /\ UNCHANGED <<patternSubs, inbound, ended>>
                  [] cmd.op = "punsubscribe" ->
                        /\ patternSubs' = patternSubs \ {name}
                        /\ UNCHANGED <<literalSubs, inbound, ended>>
                  [] cmd.op = "quit" ->
                        /\ literalSubs' = {}
                        /\ patternSubs' = {}
                        /\ ended' = TRUE
                        /\ UNCHANGED inbound
           /\ lastOp' = Op("execute", cmd.id, FALSE, <<>>)
    /\ UNCHANGED <<currentSubscriptionId, subscriptionMap, subsRefsMap, promise>>

\* the transport fails a subscribe / psubscribe: the callback gets err
BrokerReject ==
    /\ outbound # <<>>
    /\ Head(outbound).op \in {"subscribe", "psubscribe"}
    /\ LET cmd == Head(outbound)
       IN  /\ outbound' = Tail(outbound)
           /\ inbound' = Append(inbound,
                [type |-> "reply", id |-> cmd.id, triggerName |-> cmd.channel,
                 err |-> TRUE, pattern |-> Null, channel |-> Null,
                 message |-> ""])
           /\ lastOp' = Op("reject", cmd.id, FALSE, <<>>)
    /\ UNCHANGED <<currentSubscriptionId, subscriptionMap, subsRefsMap, promise,
                   literalSubs, patternSubs, ended>>

\* the events one published message produces on this connection: a 'message'
\* if the channel is subscribed, then a 'pmessage' per matching pattern
Event(pattern, channel, message) ==
    [type |-> "message", id |-> -1, triggerName |-> Null, err |-> FALSE,
     pattern |-> pattern, channel |-> channel, message |-> message]

RECURSIVE PatternEvents(_, _, _)
PatternEvents(patterns, channel, message) ==
    IF patterns = {} THEN <<>>
    ELSE LET p == CHOOSE q \in patterns : TRUE
         IN  (IF Matches(p, channel) THEN <<Event(p, channel, message)>> ELSE <<>>)
             \o PatternEvents(patterns \ {p}, channel, message)

MessageEvents(literals, patterns, channel, message) ==
    (IF channel \in literals THEN <<Event(Null, channel, message)>> ELSE <<>>)
    \o PatternEvents(patterns, channel, message)

InFlight == Cardinality({i \in 1 .. Len(inbound) : inbound[i].type = "message"})

\* some client publishes `message` on `channel` at the broker
BrokerPublish(channel, message) ==
    /\ InFlight < MaxInFlight
    /\ inbound' = inbound \o MessageEvents(literalSubs, patternSubs, channel, message)
    /\ lastOp' = Op("publish", -1, FALSE, <<>>)
    /\ UNCHANGED <<currentSubscriptionId, subscriptionMap, subsRefsMap, promise,
                   outbound, literalSubs, patternSubs, ended>>

\* ---------------------------------------------------------------- specification
Next ==
    \/ \E trigger \in Triggers, pattern \in BOOLEAN : Subscribe(trigger, pattern)
    \/ SubscribeCallback
    \/ \E subId \in SubIds : Unsubscribe(subId)
    \/ OnMessage
    \/ Close
    \/ BrokerExecute
    \/ BrokerReject
    \/ \E channel \in Triggers, message \in Payloads : BrokerPublish(channel, message)

Spec == Init /\ [][Next]_vars

\* Callers that pass to unsubscribe only an id a resolved subscribe returned
\* and that they have not unsubscribed yet.
UnsubscribeIssued(subId) ==
    /\ subId \in DOMAIN promise
    /\ promise[subId] = "resolved"
    /\ subId \in DOMAIN subscriptionMap
    /\ Unsubscribe(subId)

NextIssued ==
    \/ \E trigger \in Triggers, pattern \in BOOLEAN : Subscribe(trigger, pattern)
    \/ SubscribeCallback
    \/ \E subId \in SubIds : UnsubscribeIssued(subId)
    \/ OnMessage
    \/ Close
    \/ BrokerExecute
    \/ BrokerReject
    \/ \E channel \in Triggers, message \in Payloads : BrokerPublish(channel, message)

SpecIssued == Init /\ [][NextIssued]_vars

\* Callers that subscribe to the channel news and to the glob pattern n*,
\* while messages are published on news.
GlobTriggers == {"news", "n*"}

NextGlob ==
    \/ \E trigger \in GlobTriggers, pattern \in BOOLEAN : Subscribe(trigger, pattern)
    \/ SubscribeCallback
    \/ \E subId \in SubIds : Unsubscribe(subId)
    \/ OnMessage
    \/ Close
    \/ BrokerExecute
    \/ BrokerReject
    \/ \E message \in Payloads : BrokerPublish("news", message)

SpecGlob == Init /\ [][NextGlob]_vars

\* ---------------------------------------------------------------- vocabulary
\* ids subscribe has returned a promise for
Allocated == DOMAIN promise

Resolved(id) == id \in DOMAIN promise /\ promise[id] = "resolved"

\* unsubscribe(id) returned normally: line 135 is the only place a record goes
Unsubscribed == {id \in Allocated : id \notin DOMAIN subscriptionMap}

\* nothing is in flight on the subscriber connection
Quiescent == outbound = <<>> /\ inbound = <<>>

RefsOf(refsMap, triggerName) ==
    IF Has(refsMap, triggerName) THEN refsMap[PropertyKey(triggerName)] ELSE <<>>

Listeners(calls) == {calls[i].listener : i \in 1 .. Len(calls)}

\* The listener invocations one message published on `channel` now would
\* cause once its events reach the registry, when no listener raises.
RECURSIVE DispatchAll(_)
DispatchAll(events) ==
    IF events = <<>> THEN <<>>
    ELSE OnMessageResult(subscriptionMap, subsRefsMap, Head(events).pattern,
                         Head(events).channel, Head(events).message, 0).calls
         \o DispatchAll(Tail(events))

PublishCalls(channel, message) ==
    DispatchAll(MessageEvents(literalSubs, patternSubs, channel, message))

Call(id, message) == [listener |-> id, value |-> ParsedMessage(message)]

\* a subscribe / psubscribe for c is still to be executed by the broker, and
\* no teardown of c was issued after it
SubscribeOutstanding(c) ==
    \E i \in 1 .. Len(outbound) :
        /\ outbound[i].op \in {"subscribe", "psubscribe"}
        /\ outbound[i].channel = c
        /\ \A j \in (i + 1) .. Len(outbound) :
              ~(outbound[j].op \in {"unsubscribe", "punsubscribe"} /\ outbound[j].channel = c)

IsSubscribeStep == \E trigger \in Triggers, pattern \in BOOLEAN : Subscribe(trigger, pattern)

\* ---------------------------------------------------------------- C10
\* C10: SubscriptionIds start at 0 and every subscribe call, whatever happens
\* to it later, returns the number of subscribe calls made before it: a fresh
\* id, larger than every id returned so far.  No other step moves the counter.
C10_IdsFreshAndIncreasing ==
    /\ currentSubscriptionId = 0
    /\ [][ /\ IsSubscribeStep =>
                /\ lastOp'.subId = Cardinality(Allocated)
                /\ lastOp'.subId \notin Allocated
                /\ \A id \in Allocated : id < lastOp'.subId
                /\ Allocated' = Allocated \cup {lastOp'.subId}
                /\ currentSubscriptionId' > lastOp'.subId
           /\ ~IsSubscribeStep =>
                /\ currentSubscriptionId' = currentSubscriptionId
                /\ Allocated' = Allocated ]_vars

\* three ids have been returned: one was rejected by the transport, one was
\* unsubscribed, and the third call has just been made
C10_Witness ==
    /\ lastOp.op = "subscribe"
    /\ lastOp.subId = 2
    /\ \E id \in Allocated : promise[id] = "rejected"
    /\ Unsubscribed # {}

\* ---------------------------------------------------------------- C9
\* C9: a subscribe call for a channel whose ChannelRefSet exists with at least
\* one id appends the new id at the end of that set, resolves at once and
\* issues no transport command; any other subscribe call issues exactly one
\* subscribe / psubscribe for the channel and stays pending on it.
C9_ReuseResolvesAtOnce ==
    [][ \A trigger \in Triggers, pattern \in BOOLEAN :
          Subscribe(trigger, pattern) =>
            LET c == triggerTransform(trigger, pattern)
                id == currentSubscriptionId
            IN  IF Len(RefsOf(subsRefsMap, c)) >= 1
                THEN /\ subsRefsMap' = Put(subsRefsMap, c, Append(RefsOf(subsRefsMap, c), id))
                     /\ promise'[id] = "resolved"
                     /\ outbound' = outbound
                ELSE /\ promise'[id] = "pending"
                     /\ subsRefsMap' = subsRefsMap
                     /\ Len(outbound') = Len(outbound) + 1
                     /\ SubSeq(outbound', 1, Len(outbound)) = outbound
                     /\ outbound'[Len(outbound')].op \in {"subscribe", "psubscribe"}
                     /\ outbound'[Len(outbound')].channel = c ]_vars

\* the last call joined a set that had an id in it and is resolved while
\* nothing of it is on the connection
C9_Witness ==
    /\ lastOp.op = "subscribe"
    /\ promise[lastOp.subId] = "resolved"
    /\ \E c \in DOMAIN subsRefsMap :
          /\ Len(subsRefsMap[c]) >= 2
          /\ subsRefsMap[c][Len(subsRefsMap[c])] = lastOp.subId
    /\ \A i \in 1 .. Len(outbound) : outbound[i].id # lastOp.subId

\* ---------------------------------------------------------------- C5
\* C5: unsubscribing the only id left in the ChannelRefSet of its channel c
\* issues exactly one unsubscribe and exactly one punsubscribe for c and
\* deletes the set; and a message that arrives for a key that has no
\* ChannelRefSet invokes no listener.
C5_LastUnsubscribeTearsDown ==
    [][ /\ \A subId \in SubIds :
             ( /\ Unsubscribe(subId)
               /\ subId \in DOMAIN subscriptionMap
               /\ RefsOf(subsRefsMap, subscriptionMap[subId][1]) = <<subId>> ) =>
                 LET c == subscriptionMap[subId][1]
                     issued == SubSeq(outbound', Len(outbound) + 1, Len(outbound'))
                 IN  /\ ~lastOp'.threw
                     /\ SubSeq(outbound', 1, Len(outbound)) = outbound
                     /\ Cardinality({i \in 1 .. Len(issued) :
                            issued[i].op = "unsubscribe" /\ issued[i].channel = c}) = 1
                     /\ Cardinality({i \in 1 .. Len(issued) :
                            issued[i].op = "punsubscribe" /\ issued[i].channel = c}) = 1
                     /\ Len(issued) = 2
                     /\ ~Has(subsRefsMap', c)
                     /\ \A pattern \in {Null, c}, message \in Payloads :
                           OnMessageResult(subscriptionMap', subsRefsMap', pattern, c,
                                           message, 0).calls = <<>>
        /\ ( /\ OnMessage
             /\ ~Has(subsRefsMap, DispatchKey(Head(inbound).pattern, Head(inbound).channel)) )
           => lastOp'.calls = <<>> ]_vars

\* a message for a channel reaches the registry after the last id of that
\* channel was unsubscribed and the set deleted: it invokes nobody
C5_Witness ==
    /\ lastOp.op = "onMessage"
    /\ lastOp.calls = <<>>
    /\ \E id \in Unsubscribed : Resolved(id)
    /\ subsRefsMap = <<>>
    /\ \E i \in 1 .. Len(outbound) : outbound[i].op = "punsubscribe"

\* ---------------------------------------------------------------- C1
\* C1: once two subscribe calls for the same channel c have resolved, whatever
\* their pattern options, and nothing has been unsubscribed, one message
\* published on c invokes the first listener exactly once and then the second
\* exactly once, each with the decoded value (listeners that do not raise).
C1_BothListenersOnceInOrder ==
    (Quiescent /\ Unsubscribed = {}) =>
        \A id1, id2 \in DOMAIN subscriptionMap :
            ( /\ id1 < id2
              /\ Resolved(id1) /\ Resolved(id2)
              /\ subscriptionMap[id1][1] = subscriptionMap[id2][1] ) =>
                \A message \in Payloads :
                    LET Mine(call) == call.listener \in {id1, id2}
                    IN  SelectSeq(PublishCalls(subscriptionMap[id1][1], message), Mine)
                            = <<Call(id1, message), Call(id2, message)>>

\* ---------------------------------------------------------------- C2
\* C2: when every issued transport command has been processed, a message
\* published on c invokes the listener of every id that resolved on c and was
\* not unsubscribed, and invokes no listener of an unsubscribed id.
C2_DeliveredToExactlyTheRegistered ==
    Quiescent =>
        \A c \in Triggers, message \in Payloads :
            /\ \A id \in DOMAIN subscriptionMap :
                  (Resolved(id) /\ subscriptionMap[id][1] = c)
                      => id \in Listeners(PublishCalls(c, message))
            /\ Listeners(PublishCalls(c, message)) \cap Unsubscribed = {}

\* ---------------------------------------------------------------- C3
\* C3: unsubscribe(id) on an id that no resolved subscribe returned (pending,
\* rejected, or never allocated) or that was already unsubscribed throws and
\* issues no transport command.
C3_UnknownIdThrowsWithoutTransportCall ==
    [][ \A subId \in SubIds :
          ( /\ Unsubscribe(subId)
            /\ ~(Resolved(subId) /\ subId \in DOMAIN subscriptionMap) ) =>
              /\ lastOp'.threw
              /\ outbound' = outbound ]_vars

\* ---------------------------------------------------------------- C4
\* C4: when the transport fails a subscribe, the call is rejected, no
\* ChannelRefSet is created and no record of the allocated id is retained.
C4_FailedSubscribeRetainsNothing ==
    [][ (SubscribeCallback /\ Head(inbound).err) =>
          /\ promise'[Head(inbound).id] = "rejected"
          /\ subsRefsMap' = subsRefsMap
          /\ Head(inbound).id \notin DOMAIN subscriptionMap' ]_vars

\* ---------------------------------------------------------------- C6
\* C6: unsubscribing an id that is in a ChannelRefSet of two or more issues no
\* transport command, removes that id alone, keeping the order of the others,
\* and every remaining listener is invoked for a later message on the channel,
\* whichever listener raises.
C6_NonLastUnsubscribeKeepsOthers ==
    [][ \A subId \in SubIds :
          ( /\ Unsubscribe(subId)
            /\ subId \in DOMAIN subscriptionMap
            /\ subId \in Range(RefsOf(subsRefsMap, subscriptionMap[subId][1]))
            /\ Len(RefsOf(subsRefsMap, subscriptionMap[subId][1])) >= 2 ) =>
              LET c == subscriptionMap[subId][1]
                  Other(id) == id # subId
                  remaining == SelectSeq(RefsOf(subsRefsMap, c), Other)
              IN  /\ outbound' = outbound
                  /\ subsRefsMap' = Put(subsRefsMap, c, remaining)
                  /\ \A message \in Payloads, thrower \in 0 .. Len(remaining) :
                        Range(remaining) \subseteq
                            Listeners(OnMessageResult(subscriptionMap', subsRefsMap',
                                        Null, c, message, thrower).calls) ]_vars

\* ---------------------------------------------------------------- C7
\* C7: every listener bound to the dispatch key of a message is invoked for
\* it, whether or not an earlier listener of the set raised.
C7_FanOutIsolatesListeners ==
    [][ OnMessage =>
          Range(Subscribers(subsRefsMap, Head(inbound).pattern, Head(inbound).channel))
              \subseteq Listeners(lastOp'.calls) ]_vars

\* ---------------------------------------------------------------- C8
\* C8: while a transport subscribe for c is outstanding and c has not been
\* torn down since, a further subscribe call for c issues no transport
\* command: the channel has one physical subscription.
C8_OnePhysicalSubscribePerChannel ==
    [][ \A trigger \in Triggers, pattern \in BOOLEAN :
          ( /\ Subscribe(trigger, pattern)
            /\ SubscribeOutstanding(triggerTransform(trigger, pattern)) )
              => outbound' = outbound ]_vars

\* ---------------------------------------------------------------- C11
\* C11: a message whose payload cannot be decoded reaches every listener of
\* its dispatch key, each with the raw payload as the value: none is skipped.
C11_UndecodableReachesEveryListener ==
    [][ (OnMessage /\ ~JSONParse(Head(inbound).message).ok) =>
          LET m == Head(inbound)
              subscribers == Subscribers(subsRefsMap, m.pattern, m.channel)
          IN  /\ Range(subscribers) \subseteq Listeners(lastOp'.calls)
              /\ \A i \in 1 .. Len(lastOp'.calls) :
                    lastOp'.calls[i].value = m.message ]_vars

\* The decoding step alone: line 167 hands the raw payload to the loop, and
\* the loop invokes the same listeners, in the same order, as for a payload
\* that decodes.
DecodeFailureAloneSkipsNone ==
    [][ (OnMessage /\ ~JSONParse(Head(inbound).message).ok) =>
          LET m == Head(inbound)
              subscribers == Subscribers(subsRefsMap, m.pattern, m.channel)
          IN  /\ \A i \in 1 .. Len(lastOp'.calls) :
                    lastOp'.calls[i].value = m.message
              /\ \E thrower \in 0 .. Len(subscribers) :
                    LET decoded == OnMessageResult(subscriptionMap, subsRefsMap,
                                      m.pattern, m.channel, "{\"a\":1}", thrower)
                    IN  /\ lastOp'.threw = decoded.threw
                        /\ Len(lastOp'.calls) = Len(decoded.calls)
                        /\ \A i \in 1 .. Len(decoded.calls) :
                              lastOp'.calls[i].listener = decoded.calls[i].listener
              /\ (lastOp'.threw \/ Range(subscribers) \subseteq Listeners(lastOp'.calls)) ]_vars

\* ---------------------------------------------------------------- C12
\* C12: close() only asks the transport to quit: it issues no unsubscribe or
\* punsubscribe, and the subscription records, the ChannelRefSets, the id
\* counter and the promises of pending subscribe calls stay as they were.
C12_CloseAbandonsSubscriptions ==
    [][ Close =>
          /\ outbound' = Append(outbound, QuitCommand)
          /\ subscriptionMap' = subscriptionMap
          /\ subsRefsMap' = subsRefsMap
          /\ currentSubscriptionId' = currentSubscriptionId
          /\ promise' = promise ]_vars

\* close() has just been called with a confirmed subscription in the registry
\* and another subscribe still awaiting its confirmation
C12_Witness ==
    /\ lastOp.op = "close"
    /\ \E c \in DOMAIN subsRefsMap : Len(subsRefsMap[c]) >= 1
    /\ \E id \in Allocated : promise[id] = "pending"
    /\ \E i \in 1 .. Len(outbound) : outbound[i].op \in {"subscribe", "psubscribe"}

\* ---------------------------------------------------------------- C13
\* the connection holds a literal or a pattern subscription named c
PhysicallySubscribed(c) == c \in literalSubs \/ c \in patternSubs

\* C13: whenever nothing is in flight on the open subscriber connection, a
\* channel is subscribed at the broker if and only if its ChannelRefSet is
\* non-empty.
C13_SubscribedIffRefSetNonEmpty ==
    (Quiescent /\ ~Closed) =>
        \A c \in Triggers :
            PhysicallySubscribed(c) <=> Len(RefsOf(subsRefsMap, c)) >= 1

\* ---------------------------------------------------------------- C14
\* The physical subscription of c has been torn down: once the broker has
\* executed what is queued, the connection is not subscribed to c.
TornDown(c) ==
    /\ ~SubscribeOutstanding(c)
    /\ \/ ~PhysicallySubscribed(c)
       \/ \E i \in 1 .. Len(outbound) :
             /\ outbound[i].op \in {"unsubscribe", "punsubscribe"}
             /\ outbound[i].channel = c

\* C14: when the answer to a pending subscribe for c arrives after an
\* unsubscribe has torn c's physical subscription down, the callback leaves
\* c without a ChannelRefSet.
C14_PendingSubscribeDoesNotResurrect ==
    [][ ( /\ SubscribeCallback
          /\ ~Closed
          /\ TornDown(Head(inbound).triggerName) )
            => Len(RefsOf(subsRefsMap', Head(inbound).triggerName)) = 0 ]_vars

\* ---------------------------------------------------------------- C15
\* C15: whenever nothing is in flight, the ids of the ChannelRefSets and the
\* subscription records correspond one to one: an id of the set of c occurs
\* there once and has a record for c, and the id of every record is in the
\* set of the record's channel.
C15_RefSetsMatchRecords ==
    Quiescent =>
        /\ \A c \in Triggers :
              LET refs == RefsOf(subsRefsMap, c)
              IN  \A i \in 1 .. Len(refs) :
                    /\ refs[i] \in DOMAIN subscriptionMap
                    /\ subscriptionMap[refs[i]][1] = c
                    /\ \A j \in 1 .. Len(refs) : refs[j] = refs[i] => j = i
        /\ \A id \in DOMAIN subscriptionMap :
              id \in Range(RefsOf(subsRefsMap, subscriptionMap[id][1]))

\* ---------------------------------------------------------------- C16
\* C16: the connection is never subscribed to one name both as a literal
\* channel and as a pattern.
C16_OneKindPerChannel ==
    \A c \in Triggers : ~(c \in literalSubs /\ c \in patternSubs)

\* ---------------------------------------------------------------- C17
\* a subscribe / psubscribe for c has been sent and its callback has not run
AwaitingConfirmation(c) ==
    \/ \E i \in 1 .. Len(outbound) :
          outbound[i].op \in {"subscribe", "psubscribe"} /\ outbound[i].channel = c
    \/ \E i \in 1 .. Len(inbound) :
          inbound[i].type = "reply" /\ inbound[i].triggerName = c

\* the callback of a subscribe / psubscribe for c runs on a confirmation
ConfirmationOf(c) ==
    /\ SubscribeCallback
    /\ ~Head(inbound).err
    /\ Head(inbound).triggerName = c

\* C17: a subscribe for c called while another subscribe for c awaits its
\* confirmation is resolved only after the transport has confirmed a
\* subscription for c.  A call that finds no ChannelRefSet for c stays
\* pending and is resolved by the confirmation of its own command; a call
\* resolved at once found a non-empty ChannelRefSet; and a ChannelRefSet
\* only becomes non-empty in the callback of a confirmation for c.
C17_DependentWaitsForConfirmation ==
    [][ /\ \A trigger \in Triggers, pattern \in BOOLEAN :
              LET c == triggerTransform(trigger, pattern)
                  id == currentSubscriptionId
              IN  (Subscribe(trigger, pattern) /\ AwaitingConfirmation(c)) =>
                      IF Len(RefsOf(subsRefsMap, c)) = 0
                      THEN /\ promise'[id] = "pending"
                           /\ Len(outbound') = Len(outbound) + 1
                           /\ outbound'[Len(outbound')].id = id
                           /\ outbound'[Len(outbound')].channel = c
                      ELSE promise'[id] = "resolved"
        /\ \A id \in Allocated :
              (promise[id] = "pending" /\ promise'[id] = "resolved") =>
                  /\ Head(inbound).id = id
                  /\ ConfirmationOf(Head(inbound).triggerName)
        /\ \A c \in Triggers :
              (Len(RefsOf(subsRefsMap, c)) = 0 /\ Len(RefsOf(subsRefsMap', c)) >= 1)
                  => ConfirmationOf(c) ]_vars

\* ids 0 and 1 were both sent to the transport for one channel, so the second
\* call was made while the first was awaiting its confirmation; the second has
\* just been resolved by its own confirmation
C17_Witness ==
    /\ lastOp.op = "callback"
    /\ lastOp.subId = 1
    /\ ~lastOp.threw
    /\ promise[1] = "resolved"
    /\ \E c \in Triggers : RefsOf(subsRefsMap, c) = <<0, 1>>

\* ---------------------------------------------------------------- C18
\* C18: onMessage dispatches on the pattern when the event carries one and on
\* the channel otherwise.  Only listeners of ids in the ChannelRefSet of that
\* key are invoked, each with the decoded payload; when the key has no
\* ChannelRefSet, or an empty one, no listener is invoked and nothing is
\* raised; and the registry is left as it was in every case.
C18_DispatchOnPatternElseChannel ==
    [][ OnMessage =>
          LET m == Head(inbound)
              refs == IF m.pattern # Null
                      THEN RefsOf(subsRefsMap, m.pattern)
                      ELSE RefsOf(subsRefsMap, m.channel)
          IN  /\ \A i \in 1 .. Len(lastOp'.calls) :
                    /\ \E id \in Range(refs) :
                          /\ id \in DOMAIN subscriptionMap
                          /\ lastOp'.calls[i].listener = subscriptionMap[id][2]
                    /\ lastOp'.calls[i].value = ParsedMessage(m.message)
              /\ Len(refs) = 0 => (lastOp'.calls = <<>> /\ ~lastOp'.threw)
              /\ registry' = registry ]_vars

\* a message published on news has just been dispatched on the pattern n*:
\* the listeners of n* were invoked and the listener of news was not
C18_Witness ==
    /\ lastOp.op = "onMessage"
    /\ lastOp.calls # <<>>
    /\ Listeners(lastOp.calls) \subseteq Range(RefsOf(subsRefsMap, "n*"))
    /\ RefsOf(subsRefsMap, "news") # <<>>
    /\ Listeners(lastOp.calls) \cap Range(RefsOf(subsRefsMap, "news")) = {}

\* a message has just been dropped: it arrived for a key whose ChannelRefSet
\* an unsubscribe had deleted
C18_WitnessDropped ==
    /\ lastOp.op = "onMessage"
    /\ lastOp.calls = <<>>
    /\ ~lastOp.threw
    /\ subsRefsMap = <<>>
    /\ Unsubscribed # {}

\* ---------------------------------------------------------------- C19
\* C19: when unsubscribe is only called with ids a resolved subscribe
\* returned, each at most once, every id of every ChannelRefSet has a
\* subscription record, so the loop of onMessage finds a record for every id
\* it reads.
C19_RefSetIdsHaveRecords ==
    \A c \in Triggers :
        /\ Range(RefsOf(subsRefsMap, c)) \subseteq DOMAIN subscriptionMap
        /\ \A message \in Payloads :
              ~OnMessageResult(subscriptionMap, subsRefsMap, Null, c, message, 0).threw

\* after an unsubscribe, a message has just been handed to the listeners that
\* remain in a ChannelRefSet
C19_Witness ==
    /\ lastOp.op = "onMessage"
    /\ lastOp.calls # <<>>
    /\ ~lastOp.threw
    /\ Unsubscribed # {}
    /\ \E c \in Triggers : Len(RefsOf(subsRefsMap, c)) >= 1

\* ---------------------------------------------------------------- C20
\* C20: unsubscribe(subId), for any integer subId, leaves every other id in
\* the ChannelRefSet it was in and every other record as it was, and sends a
\* transport unsubscribe only when subId was the one member of the
\* ChannelRefSet of its own channel.
C20_UnsubscribeTouchesOnlyItsId ==
    [][ \A subId \in SubIds :
          Unsubscribe(subId) =>
            /\ \A c \in Triggers :
                  \A id \in Range(RefsOf(subsRefsMap, c)) \ {subId} :
                      id \in Range(RefsOf(subsRefsMap', c))
            /\ \A id \in DOMAIN subscriptionMap \ {subId} :
                  /\ id \in DOMAIN subscriptionMap'
                  /\ subscriptionMap'[id] = subscriptionMap[id]
            /\ outbound' # outbound =>
                  /\ subId \in DOMAIN subscriptionMap
                  /\ RefsOf(subsRefsMap, subscriptionMap[subId][1]) = <<subId>> ]_vars

====
